---- MODULE Spec2Model ----
(***************************************************************************)
(* Merkle-tree token batching of scripts/sovereign/merkle_tree.py:         *)
(* the MerkleTree object (leaves, cached tree levels, proofs) and the      *)
(* TokenBlocker that seals tokens into SignedBlocks.                       *)
(*                                                                         *)
(* Python objects are records of their fields; a method is an operator     *)
(* that takes the object (self) and returns the object after the call      *)
(* together with the returned value and the exception raised, if any.      *)
(***************************************************************************)
EXTENDS Integers, Sequences, FiniteSets, TLC

VARIABLES
    mt,             \* a stand-alone MerkleTree object
    blocker,        \* a TokenBlocker object
    twin,           \* a second TokenBlocker object, same block_size
    sign_log,       \* the data blocker's signer was asked to sign, in order
    submitted,      \* the tokens passed to add_token so far, in call order
    seals,          \* the number of calls so far that returned a SignedBlock
    ret,            \* the last call: its name, arguments, exception, value
    pc,             \* per caller: the statement it executes next
    frame,          \* per caller: the local variables of its running call
    audit_trail     \* the compliance audit trail as stored on disk

vars ==
    <<mt, blocker, twin, sign_log, submitted, seals, ret, pc, frame,
      audit_trail>>

\* The variables of calls executed statement by statement.
stepvars == <<pc, frame>>

----------------------------------------------------------------------------
(* Bounds of the model. *)

\* Longest leaf list of the stand-alone tree.
MaxLeaves == 5

\* Largest block_size a TokenBlocker is constructed with.
MaxBlockSize == 3

\* Most add_token calls made on one TokenBlocker.
MaxTokens == 4

\* Most add_token calls made on each of two TokenBlockers run side by side.
MaxPairTokens == 3

\* Most siblings of a proof handed to verify_proof from outside.
MaxSiblings == 2

\* Most add_token calls made on a TokenBlocker run statement by statement.
MaxStepTokens == 3

\* Most add_token calls made by two callers racing on one TokenBlocker.
MaxRaceTokens == 2

\* Most leaves logged to the tree of one SovereignProxy.
MaxProxyLeaves == 5

\* Most entries of the audit trail.
MaxAuditEntries == 2

\* Most tokens one FAOLoop is asked to generate, over all generate calls.
MaxGenTokens == 4

\* The readings time.time() can give.
Clock == {0, 1}

----------------------------------------------------------------------------
(* Strings.  A Python str is a sequence of atoms.  An atom is a record     *)
(* [tag, arg]: a plain character has its letter as tag and an empty arg;   *)
(* the hex digest of a string s is the single atom tagged "H" with arg s   *)
(* (its 64 characters taken as one unit), so the digest is collision-free. *)
(* String concatenation (+) is \o.                                         *)

Ch(c) == <<[tag |-> c, arg |-> <<>>]>>

EmptyStr == <<>>

\* The items (tokens) callers submit; the empty string is a valid item.
Items == {EmptyStr, Ch("a"), Ch("b")}

\* Optional[T]: None is the empty tuple, a present value x is <<x>>.
None == <<>>

Some(x) == <<x>>

\* seq[i] of Python for a valid (possibly negative) index i.
PyHas(seq, i) == i >= -Len(seq) /\ i < Len(seq)

PyAt(seq, i) == IF i >= 0 THEN seq[i + 1] ELSE seq[Len(seq) + i + 1]

----------------------------------------------------------------------------
(* class MerkleTree *)

\* MerkleTree.__init__: no leaves, no cached levels.
MerkleTree_init == [leaves |-> <<>>, tree |-> <<>>]

\* hashlib.sha256(data.encode()).hexdigest()
_sha256(data) == <<[tag |-> "H", arg |-> data]>>

hash_fn(data) == _sha256(data)

_combine(left, right) == hash_fn(left \o right)

add_leaf(self, data) ==
    [self |-> [self EXCEPT !.leaves = Append(self.leaves, hash_fn(data))],
     val  |-> Len(self.leaves)]

\* One pass of the for loop of build over current_level (i = 0, 2, 4, ...).
NextLevelPromote(current_level) ==
    [k \in 1..((Len(current_level) + 1) \div 2) |->
        LET i == 2 * (k - 1)
            left == PyAt(current_level, i)
        IN  IF i + 1 < Len(current_level)
            THEN _combine(left, PyAt(current_level, i + 1))
            ELSE left]

NextLevel(current_level) ==
    [k \in 1..((Len(current_level) + 1) \div 2) |->
        LET i == 2 * (k - 1)
            left == PyAt(current_level, i)
            right == IF i + 1 < Len(current_level)
                     THEN PyAt(current_level, i + 1)
                     ELSE left
        IN  _combine(left, right)]

\* The levels build appends to self.tree, from current_level upwards.
RECURSIVE BuildLevelsRehash(_)
BuildLevelsRehash(current_level) ==
    IF Len(current_level) > 1
    THEN <<current_level>> \o BuildLevelsRehash(NextLevel(current_level))
    ELSE <<current_level, NextLevel(current_level)>>

RECURSIVE BuildLevels(_)
BuildLevels(current_level) ==
    IF Len(current_level) > 1
    THEN <<current_level>> \o BuildLevels(NextLevel(current_level))
    ELSE <<current_level>>

build(self) ==
    IF self.leaves = <<>>
    THEN [self |-> self, val |-> hash_fn(EmptyStr)]
    ELSE LET levels == BuildLevels(self.leaves)
         IN  [self |-> [self EXCEPT !.tree = levels],
              val  |-> PyAt(PyAt(levels, -1), 0)]

get_root(self) ==
    IF self.tree = <<>> \/ Len(PyAt(self.tree, -1)) # 1
    THEN build(self)
    ELSE [self |-> self, val |-> PyAt(PyAt(self.tree, -1), 0)]

\* The sibling index get_proof looks at for current_index.
SiblingIndexRight(current_index) == current_index + 1

SiblingIndex(current_index) ==
    IF current_index % 2 = 0 THEN current_index + 1 ELSE current_index - 1

\* The for loop of get_proof over levels (self.tree[:-1] from position k on):
\* the siblings collected, or ok = FALSE when an index raised IndexError.
RECURSIVE ProofSiblings(_, _)
ProofSiblings(levels, current_index) ==
    IF levels = <<>>
    THEN [ok |-> TRUE, siblings |-> <<>>]
    ELSE LET level == Head(levels)
             sibling_index == SiblingIndex(current_index)
             pick == IF sibling_index < Len(level)
                     THEN sibling_index
                     ELSE current_index
         IN  IF ~PyHas(level, pick)
             THEN [ok |-> FALSE, siblings |-> <<>>]
             ELSE LET rest == ProofSiblings(Tail(levels), current_index \div 2)
                  IN  [ok |-> rest.ok,
                       siblings |-> <<PyAt(level, pick)>> \o rest.siblings]

\* get_proof walking every level, the root level included.
get_proofAllLevels(self, index) ==
    LET built == IF self.tree = <<>> THEN build(self).self ELSE self
        walk == ProofSiblings(built.tree, index)
    IN  IF ~walk.ok \/ ~PyHas(built.leaves, index)
        THEN [self |-> built, exc |-> "IndexError", val |-> None]
        ELSE LET root == get_root(built)
             IN  [self |-> root.self, exc |-> "",
                  val  |-> Some([leaf_hash  |-> PyAt(built.leaves, index),
                                 leaf_index |-> index,
                                 siblings   |-> walk.siblings,
                                 root       |-> root.val])]

get_proof(self, index) ==
    LET built == IF self.tree = <<>> THEN build(self).self ELSE self
        walk == ProofSiblings(SubSeq(built.tree, 1, Len(built.tree) - 1), index)
    IN  IF ~walk.ok \/ ~PyHas(built.leaves, index)
        THEN [self |-> built, exc |-> "IndexError", val |-> None]
        ELSE LET root == get_root(built)
             IN  [self |-> root.self, exc |-> "",
                  val  |-> Some([leaf_hash  |-> PyAt(built.leaves, index),
                                 leaf_index |-> index,
                                 siblings   |-> walk.siblings,
                                 root       |-> root.val])]

\* The for loop of verify_proof without index //= 2.
RECURSIVE FoldSiblingsNoHalve(_, _, _)
FoldSiblingsNoHalve(current, index, siblings) ==
    IF siblings = <<>>
    THEN current
    ELSE FoldSiblingsNoHalve(IF index % 2 = 0
                             THEN _combine(current, Head(siblings))
                             ELSE _combine(Head(siblings), current),
                             index, Tail(siblings))

\* The for loop of verify_proof: current after folding the siblings.
RECURSIVE FoldSiblings(_, _, _)
FoldSiblings(current, index, siblings) ==
    IF siblings = <<>>
    THEN current
    ELSE FoldSiblings(IF index % 2 = 0
                      THEN _combine(current, Head(siblings))
                      ELSE _combine(Head(siblings), current),
                      index \div 2, Tail(siblings))

verify_proofOwnRoot(self, proof) ==
    FoldSiblings(proof.leaf_hash, proof.leaf_index, proof.siblings)
        = PyAt(PyAt(self.tree, -1), 0)

verify_proof(self, proof) ==
    FoldSiblings(proof.leaf_hash, proof.leaf_index, proof.siblings) = proof.root

\* clear that drops the leaves and keeps the cached levels.
clearLeavesOnly(self) == [self EXCEPT !.leaves = <<>>]

clear(self) == [self EXCEPT !.leaves = <<>>, !.tree = <<>>]

----------------------------------------------------------------------------
(* class TokenBlocker *)

\* What can be injected as signer: None, a signer whose sign returns a
\* signature, a signer whose sign always raises.
Signers == {"none", "ok", "raises"}

\* self.signer.sign(data) of the injected signer.
signer_sign(signer, data) ==
    IF signer = "raises"
    THEN [exc |-> "SignerError", val |-> None]
    ELSE [exc |-> "", val |-> Some(<<[tag |-> "SIG", arg |-> data]>>)]

TokenBlocker_init(block_size, signer) ==
    [block_size     |-> block_size,
     signer         |-> signer,
     current_tokens |-> <<>>,
     current_tree   |-> MerkleTree_init,
     signed_blocks  |-> <<>>,
     block_counter  |-> 0]

\* _finalize_block without block_counter += 1.
_finalize_blockNoCount(self, now) ==
    LET root == get_root(self.current_tree)
        attempt == IF self.signer # "none"
                   THEN signer_sign(self.signer, root.val)
                   ELSE [exc |-> "", val |-> None]
        block == [tokens      |-> self.current_tokens,
                  merkle_root |-> root.val,
                  signature   |-> IF attempt.exc = "" THEN attempt.val ELSE None,
                  timestamp   |-> now,
                  block_id    |-> self.block_counter]
    IN  [self |-> [self EXCEPT
                      !.signed_blocks  = Append(self.signed_blocks, block),
                      !.current_tokens = <<>>,
                      !.current_tree   = clear(root.self)],
         exc    |-> "",
         val    |-> Some(block),
         signed |-> IF self.signer # "none" THEN <<root.val>> ELSE <<>>]

\* _finalize_block without self.current_tokens = [].
_finalize_blockKeepTokens(self, now) ==
    LET root == get_root(self.current_tree)
        attempt == IF self.signer # "none"
                   THEN signer_sign(self.signer, root.val)
                   ELSE [exc |-> "", val |-> None]
        block == [tokens      |-> self.current_tokens,
                  merkle_root |-> root.val,
                  signature   |-> IF attempt.exc = "" THEN attempt.val ELSE None,
                  timestamp   |-> now,
                  block_id    |-> self.block_counter]
    IN  [self |-> [self EXCEPT
                      !.signed_blocks  = Append(self.signed_blocks, block),
                      !.block_counter  = self.block_counter + 1,
                      !.current_tree   = clear(root.self)],
         exc    |-> "",
         val    |-> Some(block),
         signed |-> IF self.signer # "none" THEN <<root.val>> ELSE <<>>]

\* _finalize_block without the try/except around self.signer.sign.
_finalize_blockUncaught(self, now) ==
    LET root == get_root(self.current_tree)
        attempt == IF self.signer # "none"
                   THEN signer_sign(self.signer, root.val)
                   ELSE [exc |-> "", val |-> None]
        block == [tokens      |-> self.current_tokens,
                  merkle_root |-> root.val,
                  signature   |-> attempt.val,
                  timestamp   |-> now,
                  block_id    |-> self.block_counter]
    IN  IF attempt.exc # ""
        THEN [self |-> [self EXCEPT !.current_tree = root.self],
              exc |-> attempt.exc, val |-> None, signed |-> <<root.val>>]
        ELSE [self |-> [self EXCEPT
                           !.signed_blocks  = Append(self.signed_blocks, block),
                           !.block_counter  = self.block_counter + 1,
                           !.current_tokens = <<>>,
                           !.current_tree   = clear(root.self)],
              exc    |-> "",
              val    |-> Some(block),
              signed |-> IF self.signer # "none" THEN <<root.val>> ELSE <<>>]

\* _finalize_block with the time of sealing hashed into the root.
_finalize_blockTimedRoot(self, now) ==
    LET root == get_root(self.current_tree)
        timed == _combine(root.val, IF now = 0 THEN Ch("0") ELSE Ch("1"))
        attempt == IF self.signer # "none"
                   THEN signer_sign(self.signer, timed)
                   ELSE [exc |-> "", val |-> None]
        block == [tokens      |-> self.current_tokens,
                  merkle_root |-> timed,
                  signature   |-> IF attempt.exc = "" THEN attempt.val ELSE None,
                  timestamp   |-> now,
                  block_id    |-> self.block_counter]
    IN  [self |-> [self EXCEPT
                      !.signed_blocks  = Append(self.signed_blocks, block),
                      !.block_counter  = self.block_counter + 1,
                      !.current_tokens = <<>>,
                      !.current_tree   = clear(root.self)],
         exc    |-> "",
         val    |-> Some(block),
         signed |-> IF self.signer # "none" THEN <<timed>> ELSE <<>>]

\* _finalize_block with the block inserted at the front of the history.
_finalize_blockPrepend(self, now) ==
    LET root == get_root(self.current_tree)
        attempt == IF self.signer # "none"
                   THEN signer_sign(self.signer, root.val)
                   ELSE [exc |-> "", val |-> None]
        block == [tokens      |-> self.current_tokens,
                  merkle_root |-> root.val,
                  signature   |-> IF attempt.exc = "" THEN attempt.val ELSE None,
                  timestamp   |-> now,
                  block_id    |-> self.block_counter]
    IN  [self |-> [self EXCEPT
                      !.signed_blocks  = <<block>> \o self.signed_blocks,
                      !.block_counter  = self.block_counter + 1,
                      !.current_tokens = <<>>,
                      !.current_tree   = clear(root.self)],
         exc    |-> "",
         val    |-> Some(block),
         signed |-> IF self.signer # "none" THEN <<root.val>> ELSE <<>>]

\* _finalize_block that calls sign a second time after a failure.
_finalize_blockRetry(self, now) ==
    LET root == get_root(self.current_tree)
        attempt == IF self.signer # "none"
                   THEN signer_sign(self.signer, root.val)
                   ELSE [exc |-> "", val |-> None]
        block == [tokens      |-> self.current_tokens,
                  merkle_root |-> root.val,
                  signature   |-> IF attempt.exc = "" THEN attempt.val ELSE None,
                  timestamp   |-> now,
                  block_id    |-> self.block_counter]
    IN  [self |-> [self EXCEPT
                      !.signed_blocks  = Append(self.signed_blocks, block),
                      !.block_counter  = self.block_counter + 1,
                      !.current_tokens = <<>>,
                      !.current_tree   = clear(root.self)],
         exc    |-> "",
         val    |-> Some(block),
         signed |-> IF self.signer = "none" THEN <<>>
                    ELSE IF attempt.exc = "" THEN <<root.val>>
                    ELSE <<root.val, root.val>>]

\* _finalize_block that falls back to the root as signature.
_finalize_blockSelfSigned(self, now) ==
    LET root == get_root(self.current_tree)
        attempt == IF self.signer # "none"
                   THEN signer_sign(self.signer, root.val)
                   ELSE [exc |-> "", val |-> None]
        block == [tokens      |-> self.current_tokens,
                  merkle_root |-> root.val,
                  signature   |-> IF attempt.exc = "" /\ self.signer # "none"
                                 THEN attempt.val ELSE Some(root.val),
                  timestamp   |-> now,
                  block_id    |-> self.block_counter]
    IN  [self |-> [self EXCEPT
                      !.signed_blocks  = Append(self.signed_blocks, block),
                      !.block_counter  = self.block_counter + 1,
                      !.current_tokens = <<>>,
                      !.current_tree   = clear(root.self)],
         exc    |-> "",
         val    |-> Some(block),
         signed |-> IF self.signer # "none" THEN <<root.val>> ELSE <<>>]

\* What the signing step of _finalize_block writes to a channel the caller
\* can read besides the return value (a log, stdout, an attribute): the
\* except branch is a bare pass, so nothing, whatever the signer did.
_finalize_block_reported(signer, root) ==
    IF signer # "none" /\ signer_sign(signer, root).exc # ""
    THEN <<>>
    ELSE <<>>

\* now is the reading of time.time().  signed lists the data handed to the
\* signer during the call.
_finalize_block(self, now) ==
    LET root == get_root(self.current_tree)
        attempt == IF self.signer # "none"
                   THEN signer_sign(self.signer, root.val)
                   ELSE [exc |-> "", val |-> None]
        signature == IF attempt.exc = "" THEN attempt.val ELSE None
        block == [tokens      |-> self.current_tokens,
                  merkle_root |-> root.val,
                  signature   |-> signature,
                  timestamp   |-> now,
                  block_id    |-> self.block_counter]
    IN  [self |-> [self EXCEPT
                      !.signed_blocks  = Append(self.signed_blocks, block),
                      !.block_counter  = self.block_counter + 1,
                      !.current_tokens = <<>>,
                      !.current_tree   = clear(root.self)],
         exc    |-> "",
         val    |-> Some(block),
         signed |-> IF self.signer # "none" THEN <<root.val>> ELSE <<>>]

\* add_token sealing on > block_size instead of >= block_size.
add_tokenLate(self, token, now) ==
    LET added == [self EXCEPT
                     !.current_tokens = Append(self.current_tokens, token),
                     !.current_tree   = add_leaf(self.current_tree, token).self]
    IN  IF Len(added.current_tokens) > added.block_size
        THEN _finalize_block(added, now)
        ELSE [self |-> added, exc |-> "", val |-> None, signed |-> <<>>]

add_token(self, token, now) ==
    LET added == [self EXCEPT
                     !.current_tokens = Append(self.current_tokens, token),
                     !.current_tree   = add_leaf(self.current_tree, token).self]
    IN  IF Len(added.current_tokens) >= added.block_size
        THEN _finalize_block(added, now)
        ELSE [self |-> added, exc |-> "", val |-> None, signed |-> <<>>]

\* flush without the check that tokens are pending.
flushNoGuard(self, now) == _finalize_block(self, now)

flush(self, now) ==
    IF self.current_tokens # <<>>
    THEN _finalize_block(self, now)
    ELSE [self |-> self, exc |-> "", val |-> None, signed |-> <<>>]

get_all_blocks(self) == self.signed_blocks

----------------------------------------------------------------------------
(* The caller of one TokenBlocker: serialized add_token, flush and         *)
(* get_all_blocks calls.                                                   *)

NoCall == [op |-> "init", args |-> <<>>, exc |-> "", val |-> None]

\* The threads that may call into one TokenBlocker.
Callers == {1, 2}

\* The locals of add_token, flush and _finalize_block before assignment.
NoFrame ==
    [op |-> "", token |-> EmptyStr, root |-> EmptyStr,
     signature |-> None, block |-> None]

\* load_existing_audit_trail() when no trail was saved yet.
load_existing_audit_trail == [entries |-> <<>>]

\* After construction no call is running.
NoCallRunning ==
    /\ pc = [c \in Callers |-> "idle"]
    /\ frame = [c \in Callers |-> NoFrame]

Init ==
    /\ NoCallRunning
    /\ audit_trail = load_existing_audit_trail
    /\ mt = MerkleTree_init
    /\ \E block_size \in 1..MaxBlockSize, signer \in Signers :
          /\ blocker = TokenBlocker_init(block_size, signer)
          /\ twin = TokenBlocker_init(block_size, signer)
    /\ sign_log = <<>>
    /\ submitted = <<>>
    /\ seals = 0
    /\ ret = NoCall

AddToken ==
    /\ Len(submitted) < MaxTokens
    /\ \E token \in Items, now \in Clock :
          LET r == add_token(blocker, token, now)
          IN  /\ blocker' = r.self
              /\ sign_log' = sign_log \o r.signed
              /\ submitted' = Append(submitted, token)
              /\ seals' = IF r.exc = "" /\ r.val # None THEN seals + 1 ELSE seals
              /\ ret' = [op |-> "add_token", args |-> <<token>>,
                         exc |-> r.exc, val |-> r.val]
    /\ UNCHANGED <<audit_trail, mt, twin>>
    /\ UNCHANGED stepvars

Flush ==
    /\ \E now \in Clock :
          LET r == flush(blocker, now)
          IN  /\ blocker' = r.self
              /\ sign_log' = sign_log \o r.signed
              /\ seals' = IF r.exc = "" /\ r.val # None THEN seals + 1 ELSE seals
              /\ ret' = [op |-> "flush", args |-> <<>>,
                         exc |-> r.exc, val |-> r.val]
    /\ UNCHANGED <<audit_trail, mt, twin, submitted>>
    /\ UNCHANGED stepvars

GetAllBlocks ==
    /\ ret' = [op |-> "get_all_blocks", args |-> <<>>, exc |-> "",
               val |-> Some(get_all_blocks(blocker))]
    /\ UNCHANGED <<audit_trail, mt, blocker, twin, sign_log, submitted, seals>>
    /\ UNCHANGED stepvars

Next == AddToken \/ Flush \/ GetAllBlocks

Spec == Init /\ [][Next]_vars

----------------------------------------------------------------------------
(* The caller of a stand-alone MerkleTree: add_leaf, build, get_root,      *)
(* get_proof, verify_proof and clear calls in any order.                   *)

\* The indices get_proof is called with: valid, negative and too large.
ProofIndices == (-(MaxLeaves + 1))..MaxLeaves

InitTree ==
    /\ NoCallRunning
    /\ audit_trail = load_existing_audit_trail
    /\ mt = MerkleTree_init
    /\ blocker = TokenBlocker_init(1, "none")
    /\ twin = TokenBlocker_init(1, "none")
    /\ sign_log = <<>>
    /\ submitted = <<>>
    /\ seals = 0
    /\ ret = NoCall

AddLeaf ==
    /\ Len(mt.leaves) < MaxLeaves
    /\ \E data \in Items :
          LET r == add_leaf(mt, data)
          IN  /\ mt' = r.self
              /\ ret' = [op |-> "add_leaf", args |-> <<data>>, exc |-> "",
                         val |-> Some(r.val)]
    /\ UNCHANGED <<audit_trail, blocker, twin, sign_log, submitted, seals>>
    /\ UNCHANGED stepvars

Build ==
    /\ LET r == build(mt)
       IN  /\ mt' = r.self
           /\ ret' = [op |-> "build", args |-> <<>>, exc |-> "",
                      val |-> Some(r.val)]
    /\ UNCHANGED <<audit_trail, blocker, twin, sign_log, submitted, seals>>
    /\ UNCHANGED stepvars

GetRoot ==
    /\ LET r == get_root(mt)
       IN  /\ mt' = r.self
           /\ ret' = [op |-> "get_root", args |-> <<>>, exc |-> "",
                      val |-> Some(r.val)]
    /\ UNCHANGED <<audit_trail, blocker, twin, sign_log, submitted, seals>>
    /\ UNCHANGED stepvars

GetProof ==
    /\ \E index \in ProofIndices :
          LET r == get_proof(mt, index)
          IN  /\ mt' = r.self
              /\ ret' = [op |-> "get_proof", args |-> <<index>>,
                         exc |-> r.exc, val |-> r.val]
    /\ UNCHANGED <<audit_trail, blocker, twin, sign_log, submitted, seals>>
    /\ UNCHANGED stepvars

\* The caller verifies the proof get_proof just returned.
VerifyProof ==
    /\ ret.op = "get_proof"
    /\ ret.exc = ""
    /\ ret' = [op |-> "verify_proof", args |-> <<ret.val[1]>>, exc |-> "",
               val |-> Some(verify_proof(mt, ret.val[1]))]
    /\ UNCHANGED <<audit_trail, mt, blocker, twin, sign_log, submitted, seals>>
    /\ UNCHANGED stepvars

Clear ==
    /\ mt' = clear(mt)
    /\ ret' = [op |-> "clear", args |-> <<>>, exc |-> "", val |-> None]
    /\ UNCHANGED <<audit_trail, blocker, twin, sign_log, submitted, seals>>
    /\ UNCHANGED stepvars

NextTree == AddLeaf \/ Build \/ GetRoot \/ GetProof \/ VerifyProof \/ Clear

SpecTree == InitTree /\ [][NextTree]_vars

----------------------------------------------------------------------------
(* The holder of a proof: a tree is filled with leaves and built, a proof  *)
(* is taken from it, and the proof is verified after one of its hashes     *)
(* was replaced.                                                           *)

\* The values a holder of proof p may put in place of one of its hashes.
TamperValues(p) ==
    {EmptyStr, hash_fn(EmptyStr), hash_fn(Ch("a")), p.leaf_hash, p.root,
     p.leaf_hash \o p.leaf_hash}
        \cup {p.siblings[j] : j \in 1..Len(p.siblings)}

\* Proof p with its leaf_hash, one sibling, or its root replaced by another
\* value.
Tamperings(p) ==
    {[p EXCEPT !.leaf_hash = v] : v \in TamperValues(p) \ {p.leaf_hash}}
        \cup {[p EXCEPT !.root = v] : v \in TamperValues(p) \ {p.root}}
        \cup UNION {{[p EXCEPT !.siblings[j] = v] :
                        v \in TamperValues(p) \ {p.siblings[j]}} :
                    j \in 1..Len(p.siblings)}

\* The tree after add_leaf of each of items, in order.
RECURSIVE Filled(_)
Filled(items) ==
    IF items = <<>>
    THEN MerkleTree_init
    ELSE add_leaf(Filled(SubSeq(items, 1, Len(items) - 1)),
                  items[Len(items)]).self

InitProof ==
    /\ NoCallRunning
    /\ audit_trail = load_existing_audit_trail
    /\ \E n \in 1..MaxLeaves : \E items \in [1..n -> Items] :
          mt = build(Filled(items)).self
    /\ blocker = TokenBlocker_init(1, "none")
    /\ twin = TokenBlocker_init(1, "none")
    /\ sign_log = <<>>
    /\ submitted = <<>>
    /\ seals = 0
    /\ ret = NoCall

TakeProof ==
    /\ ret.op = "init"
    /\ \E index \in 0..(Len(mt.leaves) - 1) :
          LET r == get_proof(mt, index)
          IN  /\ mt' = r.self
              /\ ret' = [op |-> "get_proof", args |-> <<index>>,
                         exc |-> r.exc, val |-> r.val]
    /\ UNCHANGED <<audit_trail, blocker, twin, sign_log, submitted, seals>>
    /\ UNCHANGED stepvars

VerifyTampered ==
    /\ ret.op = "get_proof"
    /\ ret.exc = ""
    /\ \E proof \in Tamperings(ret.val[1]) :
          ret' = [op |-> "verify_proof", args |-> <<proof>>, exc |-> "",
                  val |-> Some(verify_proof(mt, proof))]
    /\ UNCHANGED <<audit_trail, mt, blocker, twin, sign_log, submitted, seals>>
    /\ UNCHANGED stepvars

NextProof == TakeProof \/ VerifyTampered

SpecProof == InitProof /\ [][NextProof]_vars

----------------------------------------------------------------------------
(* verify_proof called on proofs that come from anywhere: any leaf index,  *)
(* any siblings, any root.                                                 *)

\* Digests a foreign proof may carry as leaf_hash or sibling.
LeafDigests == {hash_fn(EmptyStr), hash_fn(Ch("a"))}

\* Strings a foreign proof may carry as root: the digests, and what one or
\* two combine steps make of them.
PairDigests == {_combine(x, y) : x \in LeafDigests, y \in LeafDigests}

RootStrings ==
    {EmptyStr} \cup LeafDigests \cup PairDigests
        \cup {_combine(x, y) : x \in PairDigests, y \in LeafDigests}
        \cup {_combine(y, x) : x \in PairDigests, y \in LeafDigests}

\* The proofs verify_proof is called with.
ForeignProofs ==
    UNION {[leaf_hash  : LeafDigests,
            leaf_index : (-(2 * MaxSiblings))..(2 * MaxSiblings),
            siblings   : [1..n -> LeafDigests],
            root       : RootStrings] : n \in 0..MaxSiblings}

\* One call per run, on a fresh MerkleTree object.
VerifyForeign ==
    /\ ret.op = "init"
    /\ \E proof \in ForeignProofs :
          ret' = [op |-> "verify_proof", args |-> <<proof>>, exc |-> "",
                  val |-> Some(verify_proof(mt, proof))]
    /\ UNCHANGED <<audit_trail, mt, blocker, twin, sign_log, submitted, seals>>
    /\ UNCHANGED stepvars

NextVerify == VerifyForeign

SpecVerify == InitTree /\ [][NextVerify]_vars

----------------------------------------------------------------------------
(* Two TokenBlocker instances of the same configuration that receive the   *)
(* same calls; each reads the clock on its own.                            *)

PairAddToken ==
    /\ Len(submitted) < MaxPairTokens
    /\ \E token \in Items, now \in Clock, now2 \in Clock :
          LET r == add_token(blocker, token, now)
              r2 == add_token(twin, token, now2)
          IN  /\ blocker' = r.self
              /\ twin' = r2.self
              /\ sign_log' = sign_log \o r.signed
              /\ submitted' = Append(submitted, token)
              /\ seals' = IF r.exc = "" /\ r.val # None THEN seals + 1 ELSE seals
              /\ ret' = [op |-> "add_token", args |-> <<token>>,
                         exc |-> r.exc, val |-> r.val]
    /\ UNCHANGED <<audit_trail, mt>>
    /\ UNCHANGED stepvars

PairFlush ==
    /\ \E now \in Clock, now2 \in Clock :
          LET r == flush(blocker, now)
              r2 == flush(twin, now2)
          IN  /\ blocker' = r.self
              /\ twin' = r2.self
              /\ sign_log' = sign_log \o r.signed
              /\ seals' = IF r.exc = "" /\ r.val # None THEN seals + 1 ELSE seals
              /\ ret' = [op |-> "flush", args |-> <<>>,
                         exc |-> r.exc, val |-> r.val]
    /\ UNCHANGED <<audit_trail, mt, submitted>>
    /\ UNCHANGED stepvars

NextPair == PairAddToken \/ PairFlush

SpecPair == Init /\ [][NextPair]_vars

----------------------------------------------------------------------------
(* The holder of a proof taken from a built tree presents it to            *)
(* verify_proof under another leaf_index.                                  *)

VerifyReindexed ==
    /\ ret.op = "get_proof"
    /\ ret.exc = ""
    /\ \E index \in ProofIndices :
          LET proof == [ret.val[1] EXCEPT !.leaf_index = index]
          IN  ret' = [op |-> "verify_proof", args |-> <<proof>>, exc |-> "",
                      val |-> Some(verify_proof(mt, proof))]
    /\ UNCHANGED <<audit_trail, mt, blocker, twin, sign_log, submitted, seals>>
    /\ UNCHANGED stepvars

NextSound == TakeProof \/ VerifyReindexed

SpecSound == InitProof /\ [][NextSound]_vars

----------------------------------------------------------------------------
(* class SovereignProxy with enable_merkle: streamed completions served    *)
(* one after the other.  mt is self.merkle_tree, created once by           *)
(* _init_safety_components; pc[1] tells whether a stream is running.       *)

\* json.dumps of the request record logged when a stream starts.
RequestLeaf == <<[tag |-> "request", arg |-> EmptyStr]>>

\* json.dumps of the record logged for a chunk with content.
TokenLeaf(content) == <<[tag |-> "token", arg |-> content]>>

\* _stream_completion up to the brain check: the request leaf is logged.
StreamRequest ==
    /\ pc[1] = "idle"
    /\ Len(mt.leaves) < MaxProxyLeaves
    /\ mt' = add_leaf(mt, RequestLeaf).self
    /\ pc' = [pc EXCEPT ![1] = "streaming"]
    /\ ret' = [op |-> "request", args |-> <<>>, exc |-> "", val |-> None]
    /\ UNCHANGED <<audit_trail, blocker, twin, sign_log, submitted, seals, frame>>

\* The brain refuses: one refusal event, then return without attestation.
StreamRefused ==
    /\ pc[1] = "streaming"
    /\ ret.op = "request"
    /\ pc' = [pc EXCEPT ![1] = "idle"]
    /\ ret' = [op |-> "refusal", args |-> <<>>, exc |-> "", val |-> None]
    /\ UNCHANGED <<audit_trail, mt, blocker, twin, sign_log, submitted, seals, frame>>

\* One chunk from the backend: logged as a leaf if it has content, then
\* streamed on.
StreamChunk ==
    /\ pc[1] = "streaming"
    /\ Len(mt.leaves) < MaxProxyLeaves
    /\ \E content \in Items :
          /\ mt' = IF content # EmptyStr
                   THEN add_leaf(mt, TokenLeaf(content)).self
                   ELSE mt
          /\ ret' = [op |-> "chunk", args |-> <<content>>, exc |-> "",
                     val |-> None]
    /\ UNCHANGED <<audit_trail, blocker, twin, sign_log, submitted, seals, pc, frame>>

\* The backend stream ended: the final sovereign_attestation event with
\* merkle_root = self.merkle_tree.get_root().
StreamAttestation ==
    /\ pc[1] = "streaming"
    /\ LET r == get_root(mt)
       IN  /\ mt' = r.self
           /\ ret' = [op |-> "sovereign_attestation", args |-> <<>>,
                      exc |-> "", val |-> Some(r.val)]
    /\ pc' = [pc EXCEPT ![1] = "idle"]
    /\ UNCHANGED <<audit_trail, blocker, twin, sign_log, submitted, seals, frame>>

NextProxy ==
    StreamRequest \/ StreamRefused \/ StreamChunk \/ StreamAttestation

SpecProxy == InitTree /\ [][NextProxy]_vars

----------------------------------------------------------------------------
(* class FAOLoop: generate calls on one loop.  blocker is                  *)
(* self.token_blocker, seals is self.signed_blocks, frame[1] holds         *)
(* max_tokens and the number of iterations done, pc[1] is "generating"     *)
(* while the generator runs and "finished" once it is exhausted.           *)

\* The tokens stage 5 hands to attestation: the candidate or "[STEERED]".
FAOTokens == {Ch("verified"), Ch("[STEERED]")}

\* FAOLoop.__init__: TokenBlocker(block_size=block_size), no signer.
InitFAO ==
    /\ NoCallRunning
    /\ audit_trail = load_existing_audit_trail
    /\ mt = MerkleTree_init
    /\ \E block_size \in 1..MaxBlockSize :
          /\ blocker = TokenBlocker_init(block_size, "none")
          /\ twin = TokenBlocker_init(block_size, "none")
    /\ sign_log = <<>>
    /\ submitted = <<>>
    /\ seals = 0
    /\ ret = NoCall

\* generate(prompt, max_tokens) is called and iterated.
Generate ==
    /\ pc[1] \in {"idle", "finished"}
    /\ \E max_tokens \in 1..(MaxGenTokens - Len(submitted)) :
          frame' = [frame EXCEPT ![1] =
                       [op |-> "generate", max_tokens |-> max_tokens,
                        done |-> 0]]
    /\ pc' = [pc EXCEPT ![1] = "generating"]
    /\ ret' = [op |-> "generate", args |-> <<>>, exc |-> "", val |-> None]
    /\ UNCHANGED <<audit_trail, mt, blocker, twin, sign_log, submitted, seals>>

\* One iteration whose process_token runs the six stages: the output
\* token goes to token_blocker.add_token and is yielded.
GenerateToken ==
    /\ pc[1] = "generating"
    /\ frame[1].done < frame[1].max_tokens
    /\ \E token \in FAOTokens, now \in Clock :
          LET r == add_token(blocker, token, now)
          IN  /\ blocker' = r.self
              /\ sign_log' = sign_log \o r.signed
              /\ submitted' = Append(submitted, token)
              /\ seals' = IF r.val # None THEN seals + 1 ELSE seals
              /\ ret' = [op |-> "yield", args |-> <<token>>, exc |-> "",
                         val |-> r.val]
    /\ frame' = [frame EXCEPT ![1].done = @ + 1]
    /\ UNCHANGED <<audit_trail, mt, twin, pc>>

\* One iteration whose process_token sheds load: "[THERMAL_SHED]" is
\* yielded without attestation and the loop breaks.
GenerateShed ==
    /\ pc[1] = "generating"
    /\ frame[1].done < frame[1].max_tokens
    /\ ret' = [op |-> "yield", args |-> <<Ch("[THERMAL_SHED]")>>,
               exc |-> "", val |-> None]
    /\ pc' = [pc EXCEPT ![1] = "finished"]
    /\ frame' = [frame EXCEPT ![1] = NoFrame]
    /\ UNCHANGED <<audit_trail, mt, blocker, twin, sign_log, submitted, seals>>

\* range(max_tokens) is exhausted: the generator returns.
GenerateEnd ==
    /\ pc[1] = "generating"
    /\ frame[1].done = frame[1].max_tokens
    /\ ret' = [op |-> "StopIteration", args |-> <<>>, exc |-> "",
               val |-> None]
    /\ pc' = [pc EXCEPT ![1] = "finished"]
    /\ frame' = [frame EXCEPT ![1] = NoFrame]
    /\ UNCHANGED <<audit_trail, mt, blocker, twin, sign_log, submitted, seals>>

NextFAO == Generate \/ GenerateToken \/ GenerateShed \/ GenerateEnd

SpecFAO == InitFAO /\ [][NextFAO]_vars

----------------------------------------------------------------------------
(* generate_audit_trail.py: the hash-chained audit trail.  Entries are     *)
(* appended as main does, the stored trail is then changed in one field    *)
(* of one entry, and verify_chain_integrity is run on it.                  *)

\* json.dumps(data, sort_keys=True) of a dict.
JsonDumps(data) == <<[tag |-> "json", arg |-> data]>>

\* calculate_hash of a dict.
calculate_hash(data) == _sha256(JsonDumps(data))

\* The dict both create_audit_entry and verify_chain_integrity hash.
hash_input(entry) ==
    [timestamp     |-> entry.timestamp,
     event_type    |-> entry.event_type,
     event_data    |-> entry.event_data,
     previous_hash |-> entry.previous_hash]

EventTypes == {"test_execution", "soc2_documentation"}

EventData == {"passed", "generated"}

\* What get_git_info yields as commit: a commit, or "unknown" on failure.
Actors == {"commit", "unknown"}

Genesis == Ch("genesis")

\* create_audit_entry; timestamp is the reading of datetime.utcnow(),
\* actor what get_git_info returned.  sequence is set by the caller.
create_audit_entry(event_type, event_data, previous_hash, timestamp, actor) ==
    LET entry == [sequence      |-> 0,
                  timestamp     |-> timestamp,
                  event_type    |-> event_type,
                  event_data    |-> event_data,
                  actor         |-> actor,
                  previous_hash |-> previous_hash,
                  entry_hash    |-> EmptyStr]
    IN  [entry EXCEPT !.entry_hash = calculate_hash(hash_input(entry))]

\* The index (from 0) of the first entry verify_chain_integrity rejects,
\* or -1.
RECURSIVE FirstBadEntry(_, _)
FirstBadEntry(entries, i) ==
    IF i >= Len(entries)
    THEN -1
    ELSE LET entry == entries[i + 1]
         IN  IF \/ entry.sequence # i
                \/ (i > 0 /\ entry.previous_hash # entries[i].entry_hash)
                \/ entry.entry_hash # calculate_hash(hash_input(entry))
             THEN i
             ELSE FirstBadEntry(entries, i + 1)

\* verify_chain_integrity: the first element of the pair it returns.
verify_chain_integrity(trail) ==
    IF trail.entries = <<>>
    THEN TRUE
    ELSE FirstBadEntry(trail.entries, 0) = -1

\* One pass of the loop of main: an event is appended to the chain.
AddAuditEntry ==
    /\ ret.op \in {"init", "add_entry"}
    /\ Len(audit_trail.entries) < MaxAuditEntries
    /\ \E event_type \in EventTypes, event_data \in EventData,
          timestamp \in Clock, actor \in Actors :
          LET previous_hash ==
                  IF audit_trail.entries # <<>>
                  THEN PyAt(audit_trail.entries, -1).entry_hash
                  ELSE Genesis
              entry == create_audit_entry(event_type, event_data,
                                          previous_hash, timestamp, actor)
          IN  audit_trail' =
                  [audit_trail EXCEPT !.entries =
                      Append(@, [entry EXCEPT
                                    !.sequence = Len(audit_trail.entries)])]
    /\ ret' = [op |-> "add_entry", args |-> <<>>, exc |-> "", val |-> None]
    /\ UNCHANGED <<mt, blocker, twin, sign_log, submitted, seals, pc, frame>>

\* The values a stored field can be changed to.
FieldValues(field) ==
    CASE field = "sequence" -> 0..MaxAuditEntries
      [] field = "timestamp" -> Clock
      [] field = "event_type" -> EventTypes
      [] field = "event_data" -> EventData
      [] field = "actor" -> Actors
      [] OTHER -> {Genesis, EmptyStr, calculate_hash(EmptyStr)}
                     \cup {audit_trail.entries[j].entry_hash :
                              j \in 1..Len(audit_trail.entries)}

AuditFields ==
    {"sequence", "timestamp", "event_type", "event_data", "actor",
     "previous_hash", "entry_hash"}

\* The entry with one field set to value.
WithField(entry, field, value) ==
    CASE field = "sequence" -> [entry EXCEPT !.sequence = value]
      [] field = "timestamp" -> [entry EXCEPT !.timestamp = value]
      [] field = "event_type" -> [entry EXCEPT !.event_type = value]
      [] field = "event_data" -> [entry EXCEPT !.event_data = value]
      [] field = "actor" -> [entry EXCEPT !.actor = value]
      [] field = "previous_hash" -> [entry EXCEPT !.previous_hash = value]
      [] OTHER -> [entry EXCEPT !.entry_hash = value]

\* Someone with access to audit_trail.json changes one field of one entry
\* of a valid trail to a different value.
TamperAuditEntry ==
    /\ ret.op = "add_entry"
    /\ verify_chain_integrity(audit_trail)
    /\ \E i \in 1..Len(audit_trail.entries), field \in AuditFields :
          \E value \in FieldValues(field) :
              /\ WithField(audit_trail.entries[i], field, value)
                    # audit_trail.entries[i]
              /\ audit_trail' =
                    [audit_trail EXCEPT !.entries[i] =
                        WithField(@, field, value)]
              /\ ret' = [op |-> "tamper", args |-> <<i - 1, field>>,
                         exc |-> "", val |-> None]
    /\ UNCHANGED <<mt, blocker, twin, sign_log, submitted, seals, pc, frame>>

\* verify_chain_integrity(audit_trail) on the stored trail; args keeps
\* what was changed before, if anything.
VerifyAuditTrail ==
    /\ ret.op \in {"add_entry", "tamper"}
    /\ ret' = [op |-> "verify_chain_integrity",
               args |-> ret.args, exc |-> "",
               val |-> Some(verify_chain_integrity(audit_trail))]
    /\ UNCHANGED <<audit_trail, mt, blocker, twin, sign_log, submitted,
                   seals, pc, frame>>

NextAudit == AddAuditEntry \/ TamperAuditEntry \/ VerifyAuditTrail

SpecAudit == InitTree /\ [][NextAudit]_vars

----------------------------------------------------------------------------
(* One producer running add_token and flush statement by statement, and a  *)
(* reader of the same TokenBlocker that may look between any two           *)
(* statements.  pc holds the source line of the statement to run next.     *)

\* The callers that produce.
Producers == {1}

\* The two statements of _finalize_block that publish the block, counter
\* first and history second.
_finalize_block_publishCounterFirst(self, block, k) ==
    IF k = 1
    THEN [self EXCEPT !.block_counter = self.block_counter + 1]
    ELSE [self EXCEPT !.signed_blocks = Append(self.signed_blocks, block)]

\* The two statements of _finalize_block that publish the block:
\* k = 1 is self.signed_blocks.append(block), k = 2 is
\* self.block_counter += 1.
_finalize_block_publish(self, block, k) ==
    IF k = 1
    THEN [self EXCEPT !.signed_blocks = Append(self.signed_blocks, block)]
    ELSE [self EXCEPT !.block_counter = self.block_counter + 1]

Goto(c, label) == pc' = [pc EXCEPT ![c] = label]

\* The call returns val to the caller c.
Return(c, val) ==
    /\ ret' = [op |-> frame[c].op,
               args |-> IF frame[c].op = "add_token"
                        THEN <<frame[c].token>> ELSE <<>>,
               exc |-> "", val |-> val]
    /\ seals' = IF val # None THEN seals + 1 ELSE seals
    /\ pc' = [pc EXCEPT ![c] = "idle"]
    /\ frame' = [frame EXCEPT ![c] = NoFrame]

\* c calls add_token(token).
CallAddToken(c) ==
    /\ pc[c] = "idle"
    /\ Len(submitted) < MaxStepTokens
    /\ \E token \in Items :
          /\ frame' = [frame EXCEPT ![c] =
                         [NoFrame EXCEPT !.op = "add_token", !.token = token]]
          /\ submitted' = Append(submitted, token)
    /\ Goto(c, "L153")
    /\ UNCHANGED <<audit_trail, mt, blocker, twin, sign_log, seals, ret>>

\* c calls flush().
CallFlush(c) ==
    /\ pc[c] = "idle"
    /\ frame' = [frame EXCEPT ![c] = [NoFrame EXCEPT !.op = "flush"]]
    /\ Goto(c, "L192")
    /\ UNCHANGED <<audit_trail, mt, blocker, twin, sign_log, submitted, seals, ret>>

\* self.current_tokens.append(token)
StepAppendToken(c) ==
    /\ pc[c] = "L153"
    /\ blocker' = [blocker EXCEPT
                      !.current_tokens = Append(@, frame[c].token)]
    /\ Goto(c, "L154")
    /\ UNCHANGED <<audit_trail, mt, twin, sign_log, submitted, seals, ret, frame>>

\* self.current_tree.add_leaf(token)
StepAddLeaf(c) ==
    /\ pc[c] = "L154"
    /\ blocker' = [blocker EXCEPT
                      !.current_tree = add_leaf(@, frame[c].token).self]
    /\ Goto(c, "L156")
    /\ UNCHANGED <<audit_trail, mt, twin, sign_log, submitted, seals, ret, frame>>

\* if len(self.current_tokens) >= self.block_size:
\*     return self._finalize_block()
\* return None
StepCheckFull(c) ==
    /\ pc[c] = "L156"
    /\ IF Len(blocker.current_tokens) >= blocker.block_size
       THEN /\ Goto(c, "L163")
            /\ UNCHANGED <<seals, ret, frame>>
       ELSE Return(c, None)
    /\ UNCHANGED <<audit_trail, mt, blocker, twin, sign_log, submitted>>

\* if self.current_tokens: return self._finalize_block()
\* return None
StepCheckPending(c) ==
    /\ pc[c] = "L192"
    /\ IF blocker.current_tokens # <<>>
       THEN /\ Goto(c, "L163")
            /\ UNCHANGED <<seals, ret, frame>>
       ELSE Return(c, None)
    /\ UNCHANGED <<audit_trail, mt, blocker, twin, sign_log, submitted>>

\* root = self.current_tree.get_root()
StepGetRoot(c) ==
    /\ pc[c] = "L163"
    /\ LET r == get_root(blocker.current_tree)
       IN  /\ blocker' = [blocker EXCEPT !.current_tree = r.self]
           /\ frame' = [frame EXCEPT ![c].root = r.val]
    /\ Goto(c, "L166")
    /\ UNCHANGED <<audit_trail, mt, twin, sign_log, submitted, seals, ret>>

\* signature = None; if self.signer: try: signature =
\* self.signer.sign(root); except: pass
StepSign(c) ==
    /\ pc[c] = "L166"
    /\ IF blocker.signer # "none"
       THEN LET attempt == signer_sign(blocker.signer, frame[c].root)
            IN  /\ sign_log' = Append(sign_log, frame[c].root)
                /\ frame' = [frame EXCEPT ![c].signature =
                                IF attempt.exc = "" THEN attempt.val
                                ELSE None]
       ELSE UNCHANGED <<sign_log, frame>>
    /\ Goto(c, "L173")
    /\ UNCHANGED <<audit_trail, mt, blocker, twin, submitted, seals, ret>>

\* block = SignedBlock(tokens=self.current_tokens.copy(), ...)
StepMakeBlock(c) ==
    /\ pc[c] = "L173"
    /\ \E now \in Clock :
          frame' = [frame EXCEPT ![c].block =
                       Some([tokens      |-> blocker.current_tokens,
                             merkle_root |-> frame[c].root,
                             signature   |-> frame[c].signature,
                             timestamp   |-> now,
                             block_id    |-> blocker.block_counter])]
    /\ Goto(c, "L181")
    /\ UNCHANGED <<audit_trail, mt, blocker, twin, sign_log, submitted, seals, ret>>

\* self.signed_blocks.append(block)
StepAppendBlock(c) ==
    /\ pc[c] = "L181"
    /\ blocker' = _finalize_block_publish(blocker, frame[c].block[1], 1)
    /\ Goto(c, "L182")
    /\ UNCHANGED <<audit_trail, mt, twin, sign_log, submitted, seals, ret, frame>>

\* self.block_counter += 1
StepCount(c) ==
    /\ pc[c] = "L182"
    /\ blocker' = _finalize_block_publish(blocker, frame[c].block[1], 2)
    /\ Goto(c, "L185")
    /\ UNCHANGED <<audit_trail, mt, twin, sign_log, submitted, seals, ret, frame>>

\* self.current_tokens = []
StepResetTokens(c) ==
    /\ pc[c] = "L185"
    /\ blocker' = [blocker EXCEPT !.current_tokens = <<>>]
    /\ Goto(c, "L186")
    /\ UNCHANGED <<audit_trail, mt, twin, sign_log, submitted, seals, ret, frame>>

\* self.current_tree.clear()
StepClearTree(c) ==
    /\ pc[c] = "L186"
    /\ blocker' = [blocker EXCEPT !.current_tree = clear(@)]
    /\ Goto(c, "L188")
    /\ UNCHANGED <<audit_trail, mt, twin, sign_log, submitted, seals, ret, frame>>

\* return block
StepReturnBlock(c) ==
    /\ pc[c] = "L188"
    /\ Return(c, frame[c].block)
    /\ UNCHANGED <<audit_trail, mt, blocker, twin, sign_log, submitted>>

\* The reader: get_all_blocks() and the block counter, read between two
\* statements of the producer.
Observe ==
    /\ ret' = [op |-> "observe", args |-> <<>>, exc |-> "",
               val |-> Some([signed_blocks |-> get_all_blocks(blocker),
                             block_counter |-> blocker.block_counter])]
    /\ UNCHANGED <<audit_trail, mt, blocker, twin, sign_log, submitted, seals, pc, frame>>

ProducerStep(c) ==
    \/ CallAddToken(c)
    \/ CallFlush(c)
    \/ StepAppendToken(c)
    \/ StepAddLeaf(c)
    \/ StepCheckFull(c)
    \/ StepCheckPending(c)
    \/ StepGetRoot(c)
    \/ StepSign(c)
    \/ StepMakeBlock(c)
    \/ StepAppendBlock(c)
    \/ StepCount(c)
    \/ StepResetTokens(c)
    \/ StepClearTree(c)
    \/ StepReturnBlock(c)

NextSteps == (\E c \in Producers : ProducerStep(c)) \/ Observe

SpecSteps == Init /\ [][NextSteps]_vars

----------------------------------------------------------------------------
(* Two callers running add_token and flush on one TokenBlocker with no     *)
(* lock, interleaved between statements.                                   *)

\* The block sizes of the TokenBlocker the two callers share.
RaceBlockSizes == {1, 2}

\* The tokens the two callers submit.
RaceItems == {Ch("a"), Ch("b")}

\* TokenBlocker(block_size) without signer, shared by the two callers.
InitRace ==
    /\ NoCallRunning
    /\ audit_trail = load_existing_audit_trail
    /\ mt = MerkleTree_init
    /\ \E block_size \in RaceBlockSizes :
          /\ blocker = TokenBlocker_init(block_size, "none")
          /\ twin = TokenBlocker_init(block_size, "none")
    /\ sign_log = <<>>
    /\ submitted = <<>>
    /\ seals = 0
    /\ ret = NoCall

\* c calls add_token(token).
RaceAddToken(c) ==
    /\ pc[c] = "idle"
    /\ Len(submitted) < MaxRaceTokens
    /\ \E token \in RaceItems :
          /\ frame' = [frame EXCEPT ![c] =
                         [NoFrame EXCEPT !.op = "add_token", !.token = token]]
          /\ submitted' = Append(submitted, token)
    /\ Goto(c, "L153")
    /\ UNCHANGED <<audit_trail, mt, blocker, twin, sign_log, seals, ret>>

NextRace ==
    \E c \in Callers :
        \/ RaceAddToken(c)
        \/ CallFlush(c)
        \/ StepAppendToken(c)
        \/ StepAddLeaf(c)
        \/ StepCheckFull(c)
        \/ StepCheckPending(c)
        \/ StepGetRoot(c)
        \/ StepSign(c)
        \/ StepMakeBlock(c)
        \/ StepAppendBlock(c)
        \/ StepCount(c)
        \/ StepResetTokens(c)
        \/ StepClearTree(c)
        \/ StepReturnBlock(c)

SpecRace == InitRace /\ [][NextRace]_vars

----------------------------------------------------------------------------
(* Properties of the stand-alone MerkleTree (SpecTree, SpecProof).         *)

\* The cached levels were built from the current leaf list: no leaf was
\* added since the tree was built.
TreeIsCurrent == mt.tree # <<>> /\ mt.tree[1] = mt.leaves

\* C1: Round trip.  For a non-empty list of n leaves built into one tree
\* and every index i with 0 <= i < n, verify_proof accepts the proof that
\* get_proof(i) returned.
C1_RoundTrip ==
    (/\ ret.op = "verify_proof"
     /\ TreeIsCurrent
     /\ ret.args[1].leaf_index \in 0..(Len(mt.leaves) - 1))
        => ret.val = Some(TRUE)

\* C1 witness: five leaves (not a power of two), the proof of the last leaf,
\* whose path meets a duplicated node at two levels, was verified.
C1_Witness ==
    /\ ret.op = "verify_proof"
    /\ TreeIsCurrent
    /\ Len(mt.leaves) = 5
    /\ ret.args[1].leaf_index = 4
    /\ Len(ret.args[1].siblings) = 3
    /\ ret.val = Some(TRUE)

\* C7: Odd-node duplication.  In every built tree each level above the
\* leaves pairs the nodes of the level below, and a last node without a
\* partner is combined with itself; three leaves a, b, c give the root
\* combine(combine(a, b), combine(c, c)).
C7_OddNodeDuplication ==
    /\ \A k \in 1..(Len(mt.tree) - 1) :
          LET lo == mt.tree[k]
              hi == mt.tree[k + 1]
          IN  /\ Len(hi) = (Len(lo) + 1) \div 2
              /\ \A j \in 1..Len(hi) :
                    hi[j] = _combine(lo[2 * j - 1],
                                     IF 2 * j <= Len(lo)
                                     THEN lo[2 * j]
                                     ELSE lo[2 * j - 1])
    /\ (ret.op = "build" /\ Len(mt.leaves) = 3)
          => ret.val = Some(_combine(_combine(mt.leaves[1], mt.leaves[2]),
                                     _combine(mt.leaves[3], mt.leaves[3])))

\* C7 witness: build of five leaves: the leaf level and the level above it
\* (three nodes) both end in a node paired with itself.
C7_Witness ==
    /\ ret.op = "build"
    /\ Len(mt.leaves) = 5
    /\ Len(mt.tree) = 4
    /\ Len(mt.tree[2]) = 3
    /\ mt.tree[2][3] = _combine(mt.leaves[5], mt.leaves[5])
    /\ mt.tree[3][2] = _combine(mt.tree[2][3], mt.tree[2][3])
    /\ mt.leaves[4] # mt.leaves[5]

\* C8: Single-leaf tree.  With exactly one leaf, build and get_root return
\* the leaf hash itself, hash(item), and get_proof(0) returns a proof with
\* no siblings, whose root is the leaf hash and which verify_proof accepts.
C8_SingleLeaf ==
    Len(mt.leaves) = 1 =>
        /\ \E item \in Items : mt.leaves[1] = hash_fn(item)
        /\ ret.op \in {"build", "get_root"} => ret.val = Some(mt.leaves[1])
        /\ (ret.op = "get_proof" /\ ret.args = <<0>>) =>
              /\ ret.exc = ""
              /\ ret.val = Some([leaf_hash  |-> mt.leaves[1],
                                 leaf_index |-> 0,
                                 siblings   |-> <<>>,
                                 root       |-> mt.leaves[1]])
        /\ (ret.op = "verify_proof" /\ ret.args[1].leaf_index = 0) =>
              /\ ret.args[1].siblings = <<>>
              /\ ret.val = Some(TRUE)

\* C8 witness: the proof of the only leaf of a one-leaf tree was verified.
C8_Witness ==
    /\ Len(mt.leaves) = 1
    /\ ret.op = "verify_proof"
    /\ ret.args[1].leaf_index = 0
    /\ ret.args[1].root = hash_fn(Ch("a"))
    /\ ret.val = Some(TRUE)

\* C10: Tamper detection.  A proof returned by get_proof for a valid index,
\* with its leaf_hash, one of its siblings or its root replaced by a
\* different value, is rejected by verify_proof.
C10_TamperDetection ==
    (/\ ret.op = "verify_proof"
     /\ \E i \in 0..(Len(mt.leaves) - 1) :
           /\ get_proof(mt, i).exc = ""
           /\ ret.args[1] \in Tamperings(get_proof(mt, i).val[1]))
        => ret.val = Some(FALSE)

\* C10 witness: of the proof of the third of three leaves, the sibling at
\* the leaf level (the leaf's own duplicate) was replaced and the proof
\* was rejected.
C10_Witness ==
    /\ ret.op = "verify_proof"
    /\ Len(mt.leaves) = 3
    /\ ret.args[1].leaf_index = 2
    /\ ret.args[1].leaf_hash = mt.leaves[3]
    /\ ret.args[1].root = mt.tree[3][1]
    /\ ret.args[1].siblings[1] # mt.leaves[3]
    /\ ret.args[1].siblings[2] = mt.tree[2][1]
    /\ ret.val = Some(FALSE)

----------------------------------------------------------------------------
(* Properties of the TokenBlocker (Spec, SpecPair).                        *)

\* The token lists of blocks, concatenated in order.
RECURSIVE ConcatTokens(_)
ConcatTokens(blocks) ==
    IF blocks = <<>>
    THEN <<>>
    ELSE ConcatTokens(SubSeq(blocks, 1, Len(blocks) - 1))
            \o blocks[Len(blocks)].tokens

\* The root of a Merkle tree built from scratch over tokens.
RootOf(tokens) == build(Filled(tokens)).val

\* C2: Sealing trigger.  An add_token call that brings the open block to
\* fewer than block_size items returns None, seals nothing and appends the
\* item to the open block; the call that brings it to block_size items
\* returns a SignedBlock holding the open block's items followed by the new
\* one, appends exactly that block to the history and leaves the open block
\* empty.  From an empty open block the first block_size-1 calls therefore
\* return None and the block_size-th seals those block_size items.
C2_SealingTrigger ==
    [][ret'.op = "add_token" =>
          LET k == Len(blocker.current_tokens) + 1
              items == Append(blocker.current_tokens, ret'.args[1])
          IN  /\ ret'.exc = ""
              /\ blocker'.block_size = blocker.block_size
              /\ k <= blocker.block_size
              /\ k < blocker.block_size =>
                    /\ ret'.val = None
                    /\ blocker'.signed_blocks = blocker.signed_blocks
                    /\ blocker'.current_tokens = items
              /\ k = blocker.block_size =>
                    /\ ret'.val # None
                    /\ ret'.val[1].tokens = items
                    /\ Len(ret'.val[1].tokens) = blocker.block_size
                    /\ blocker'.signed_blocks
                          = Append(blocker.signed_blocks, ret'.val[1])
                    /\ blocker'.current_tokens = <<>>]_vars

\* C2 witness: with block_size 2, the second block was sealed by the
\* fourth add_token call, right after the first seal and one None.
C2_Witness ==
    /\ blocker.block_size = 2
    /\ ret.op = "add_token"
    /\ ret.val # None
    /\ ret.val[1].block_id = 1
    /\ Len(blocker.signed_blocks[1].tokens) = 2
    /\ ret.val[1].tokens = SubSeq(submitted, 3, 4)
    /\ blocker.current_tokens = <<>>

\* C3: Partial flush.  flush on an open block of k items, 0 < k <
\* block_size, returns a SignedBlock holding exactly those k items, which
\* is appended to the history, and empties the open block; a flush that
\* directly follows a sealing flush returns None.
C3_PartialFlush ==
    [][ret'.op = "flush" =>
          /\ (/\ Len(blocker.current_tokens) > 0
              /\ Len(blocker.current_tokens) < blocker.block_size) =>
                /\ ret'.exc = ""
                /\ ret'.val # None
                /\ ret'.val[1].tokens = blocker.current_tokens
                /\ blocker'.signed_blocks
                      = Append(blocker.signed_blocks, ret'.val[1])
                /\ blocker'.current_tokens = <<>>
          /\ (ret.op = "flush" /\ ret.val # None) =>
                /\ ret'.val = None
                /\ blocker' = blocker]_vars

\* C3 witness: a block of 2 items was sealed by flush with block_size 3,
\* and the last call was a flush that returned None.
C3_Witness ==
    /\ blocker.block_size = 3
    /\ Len(blocker.signed_blocks) = 1
    /\ Len(blocker.signed_blocks[1].tokens) = 2
    /\ blocker.current_tokens = <<>>
    /\ Len(submitted) = 2
    /\ ret.op = "flush"
    /\ ret.val = None

\* C4: Block ID monotonicity.  After any sequence of add_token and flush
\* calls of which N returned a block, the history holds exactly N blocks
\* and the block at position i (from 0) has block_id i.
C4_BlockIdMonotonic ==
    /\ Len(blocker.signed_blocks) = seals
    /\ \A i \in 1..Len(blocker.signed_blocks) :
          blocker.signed_blocks[i].block_id = i - 1

\* C4 witness: three blocks, one sealed by capacity and one by flush, and
\* the last call was a flush on an empty open block.
C4_Witness ==
    /\ blocker.block_size = 2
    /\ Len(blocker.signed_blocks) = 3
    /\ Len(blocker.signed_blocks[1].tokens) = 1
    /\ Len(blocker.signed_blocks[2].tokens) = 2
    /\ blocker.signed_blocks[3].block_id = 2
    /\ ret.op = "flush"
    /\ ret.val = None

\* C5: Item ordering and conservation.  Between calls, the token lists of
\* the sealed blocks in history order followed by the open block's items
\* are the items passed to add_token, in call order.
C5_ItemConservation ==
    ConcatTokens(blocker.signed_blocks) \o blocker.current_tokens = submitted

\* C5 witness: four distinct-position items went into a capacity-sealed
\* block, a flushed block and the open block.
C5_Witness ==
    /\ blocker.block_size = 2
    /\ Len(submitted) = 4
    /\ submitted[1] # submitted[2]
    /\ submitted[3] # submitted[4]
    /\ Len(blocker.signed_blocks) = 2
    /\ Len(blocker.signed_blocks[1].tokens) = 2
    /\ Len(blocker.signed_blocks[2].tokens) = 1
    /\ blocker.current_tokens = <<submitted[4]>>

\* C6: Signer failure isolation.  With a signer whose sign always raises,
\* every add_token that fills the block and every flush of a non-empty
\* block raises nothing and returns a SignedBlock with signature None and
\* the Merkle root of its tokens, which is appended to the history with
\* the next block ID, and the open block is reset.
C6_SignerFailureIsolation ==
    [][(/\ blocker.signer = "raises"
        /\ \/ /\ ret'.op = "add_token"
              /\ Len(blocker.current_tokens) + 1 >= blocker.block_size
           \/ /\ ret'.op = "flush"
              /\ blocker.current_tokens # <<>>) =>
          /\ ret'.exc = ""
          /\ ret'.val # None
          /\ ret'.val[1].signature = None
          /\ ret'.val[1].tokens
                = blocker.current_tokens
                     \o (IF ret'.op = "add_token" THEN ret'.args ELSE <<>>)
          /\ ret'.val[1].merkle_root = RootOf(ret'.val[1].tokens)
          /\ ret'.val[1].block_id = Len(blocker.signed_blocks)
          /\ blocker'.signed_blocks
                = Append(blocker.signed_blocks, ret'.val[1])
          /\ blocker'.block_counter = blocker.block_counter + 1
          /\ blocker'.current_tokens = <<>>
          /\ blocker'.current_tree = MerkleTree_init]_vars

\* C6 witness: with a raising signer, a capacity seal and then a flush
\* each called the signer and each produced an unsigned block.
C6_Witness ==
    /\ blocker.signer = "raises"
    /\ blocker.block_size = 2
    /\ Len(blocker.signed_blocks) = 2
    /\ Len(blocker.signed_blocks[1].tokens) = 2
    /\ Len(sign_log) = 2
    /\ ret.op = "flush"
    /\ ret.exc = ""
    /\ ret.val # None
    /\ ret.val[1].signature = None
    /\ ret.val[1].block_id = 1

\* C9: Determinism.  Two TokenBlockers of the same configuration that
\* received the same add_token and flush calls hold the same number of
\* sealed blocks, with pairwise equal token lists, block IDs and Merkle
\* roots.
C9_Determinism ==
    /\ Len(blocker.signed_blocks) = Len(twin.signed_blocks)
    /\ \A i \in 1..Len(blocker.signed_blocks) :
          /\ blocker.signed_blocks[i].tokens = twin.signed_blocks[i].tokens
          /\ blocker.signed_blocks[i].block_id
                = twin.signed_blocks[i].block_id
          /\ blocker.signed_blocks[i].merkle_root
                = twin.signed_blocks[i].merkle_root

\* C9 witness: both instances sealed two blocks, one by capacity and one
\* by flush, and sealed the first at different clock readings.
C9_Witness ==
    /\ blocker.block_size = 2
    /\ Len(blocker.signed_blocks) = 2
    /\ Len(twin.signed_blocks) = 2
    /\ Len(twin.signed_blocks[1].tokens) = 2
    /\ Len(twin.signed_blocks[2].tokens) = 1
    /\ blocker.signed_blocks[1].timestamp # twin.signed_blocks[1].timestamp

----------------------------------------------------------------------------
(* Properties of verify_proof on arbitrary proofs (SpecVerify).            *)

\* 2^j.
RECURSIVE Pow2(_)
Pow2(j) == IF j = 0 THEN 1 ELSE 2 * Pow2(j - 1)

\* The node a proof claims at level j (0 = the leaf): below it the node of
\* level j-1, whose index is leaf_index halved j-1 times, joined with
\* sibling j on the right when that index is even and on the left when odd.
RECURSIVE ClaimedNode(_, _)
ClaimedNode(proof, j) ==
    IF j = 0
    THEN proof.leaf_hash
    ELSE IF (proof.leaf_index \div Pow2(j - 1)) % 2 = 0
         THEN _combine(ClaimedNode(proof, j - 1), proof.siblings[j])
         ELSE _combine(proof.siblings[j], ClaimedNode(proof, j - 1))

\* C11: verify_proof is total and exact.  For any proof (any leaf index,
\* negative and out-of-range ones included, any number of siblings) it
\* raises nothing and returns a boolean, TRUE exactly when folding the
\* siblings from the leaf level up, current on the left at an even index
\* and on the right at an odd one, the index halved at each level, gives
\* proof.root.
C11_VerifyTotalExact ==
    ret.op = "verify_proof" =>
        /\ ret.exc = ""
        /\ ret.val \in {Some(TRUE), Some(FALSE)}
        /\ ret.val = Some(TRUE)
              <=> ClaimedNode(ret.args[1], Len(ret.args[1].siblings))
                     = ret.args[1].root

\* C11 witness: a proof with a negative odd leaf index and two siblings,
\* each joined on the left, was accepted.
C11_Witness ==
    /\ ret.op = "verify_proof"
    /\ ret.args[1].leaf_index = -1
    /\ Len(ret.args[1].siblings) = 2
    /\ ret.args[1].siblings[1] # ret.args[1].leaf_hash
    /\ ret.args[1].root
          = _combine(ret.args[1].siblings[2],
                     _combine(ret.args[1].siblings[1], ret.args[1].leaf_hash))
    /\ ret.val = Some(TRUE)


\* C14: Append-only history.  Every call leaves the history as it was or
\* appends exactly one SignedBlock to it, the block it returns; no entry
\* is removed, moved or changed.
C14_AppendOnlyHistory ==
    [][/\ Len(blocker'.signed_blocks) >= Len(blocker.signed_blocks)
       /\ SubSeq(blocker'.signed_blocks, 1, Len(blocker.signed_blocks))
             = blocker.signed_blocks
       /\ IF ret'.op \in {"add_token", "flush"} /\ ret'.val # None
          THEN blocker'.signed_blocks
                  = Append(blocker.signed_blocks, ret'.val[1])
          ELSE blocker'.signed_blocks = blocker.signed_blocks]_vars

\* C14 witness: a second block was just appended and returned; the first,
\* with other tokens, is still in place.
C14_Witness ==
    /\ Len(blocker.signed_blocks) = 2
    /\ blocker.signed_blocks[1].tokens = <<Ch("a"), Ch("b")>>
    /\ blocker.signed_blocks[1].block_id = 0
    /\ blocker.signed_blocks[2].tokens = <<EmptyStr>>
    /\ ret.op = "flush"
    /\ ret.val = Some(blocker.signed_blocks[2])

\* C15: Signing happens once per sealed block.  With a signer injected,
\* the calls made to sign are, in order, one per sealed block with that
\* block's Merkle root as argument: none for a call that does not seal,
\* none repeated after a failure.
C15_SignedOncePerBlock ==
    blocker.signer # "none" =>
        sign_log = [i \in 1..Len(blocker.signed_blocks) |->
                       blocker.signed_blocks[i].merkle_root]

\* C15 witness: a raising signer was called for each of two sealed blocks
\* and not for the add_token call that followed and sealed nothing.
C15_Witness ==
    /\ blocker.signer = "raises"
    /\ Len(blocker.signed_blocks) = 2
    /\ Len(sign_log) = 2
    /\ sign_log[1] # sign_log[2]
    /\ ret.op = "add_token"
    /\ ret.val = None

\* C16: Without a signer, every SignedBlock produced has signature None.
C16_NoSignerNoSignature ==
    blocker.signer = "none" =>
        /\ \A i \in 1..Len(blocker.signed_blocks) :
              blocker.signed_blocks[i].signature = None
        /\ (ret.op \in {"add_token", "flush"} /\ ret.val # None)
              => ret.val[1].signature = None

\* C16 witness: without a signer, one block was sealed by capacity and one
\* by flush.
C16_Witness ==
    /\ blocker.signer = "none"
    /\ blocker.block_size = 3
    /\ Len(blocker.signed_blocks) = 2
    /\ Len(blocker.signed_blocks[1].tokens) = 3
    /\ Len(blocker.signed_blocks[2].tokens) = 1
    /\ ret.op = "flush"
    /\ ret.val # None
    /\ ret.val[1].signature = None

\* C17: flush on an empty open block is a no-op.  It returns None, leaves
\* the TokenBlocker (history, block counter, open block) unchanged and
\* does not call the signer.
C17_EmptyFlushNoOp ==
    [][(ret'.op = "flush" /\ blocker.current_tokens = <<>>) =>
          /\ ret'.exc = ""
          /\ ret'.val = None
          /\ blocker' = blocker
          /\ sign_log' = sign_log
          /\ seals' = seals]_vars

\* C17 witness: right after a capacity seal with a working signer, a flush
\* returned None and the signer had been called once.
C17_Witness ==
    /\ blocker.signer = "ok"
    /\ blocker.block_size = 2
    /\ Len(blocker.signed_blocks) = 1
    /\ Len(blocker.signed_blocks[1].tokens) = 2
    /\ blocker.block_counter = 1
    /\ blocker.current_tokens = <<>>
    /\ Len(sign_log) = 1
    /\ ret.op = "flush"
    /\ ret.val = None

\* The SignedBlock is fully constructed: it has its tokens, the root over
\* them, the signature its signer gives (None without a working signer)
\* and a block ID.
FullyConstructed(b) ==
    /\ b.tokens # <<>>
    /\ b.merkle_root = RootOf(b.tokens)
    /\ b.signature = IF blocker.signer = "ok"
                     THEN signer_sign("ok", b.merkle_root).val
                     ELSE None
    /\ b.timestamp \in Clock
    /\ b.block_id \in Nat

\* Every block ID below block_counter has its fully constructed block in
\* signed_blocks.
AssignedIdsPresent(signed_blocks, block_counter) ==
    \A id \in 0..(block_counter - 1) :
        \E i \in 1..Len(signed_blocks) :
            /\ signed_blocks[i].block_id = id
            /\ FullyConstructed(signed_blocks[i])

\* C18: Atomic sealing towards readers.  With one producer running
\* add_token and flush statement by statement and a reader interleaved at
\* any point, between any two statements, and in everything the reader
\* observed, every block ID the block counter has advanced past has its
\* fully constructed SignedBlock in the history.
C18_SealingAtomicForReaders ==
    /\ AssignedIdsPresent(blocker.signed_blocks, blocker.block_counter)
    /\ ret.op = "observe" =>
          AssignedIdsPresent(ret.val[1].signed_blocks,
                             ret.val[1].block_counter)

\* C18 witness: the reader looked in the middle of the second seal, after
\* the block was appended and before the counter advanced.
C18_Witness ==
    /\ pc[1] = "L182"
    /\ frame[1].op = "add_token"
    /\ ret.op = "observe"
    /\ Len(ret.val[1].signed_blocks) = 2
    /\ ret.val[1].block_counter = 1
    /\ ret.val[1].signed_blocks[2].block_id = 1
    /\ ret.val[1].signed_blocks = blocker.signed_blocks

\* C19: Reset after sealing.  Every sealed block's merkle_root is the root
\* of a tree built from scratch over that block's own tokens, and between
\* calls the open tree holds the leaves of the pending tokens only and no
\* cached level.
C19_ResetAfterSealing ==
    /\ \A i \in 1..Len(blocker.signed_blocks) :
          blocker.signed_blocks[i].merkle_root
             = RootOf(blocker.signed_blocks[i].tokens)
    /\ blocker.current_tree = Filled(blocker.current_tokens)

\* C19 witness: two sealed blocks with different tokens and different
\* roots, and a pending token in the open block.
C19_Witness ==
    /\ blocker.block_size = 2
    /\ Len(blocker.signed_blocks) = 2
    /\ blocker.signed_blocks[1].tokens = <<Ch("a"), Ch("b")>>
    /\ blocker.signed_blocks[2].tokens = <<Ch("b")>>
    /\ blocker.signed_blocks[2].merkle_root = hash_fn(Ch("b"))
    /\ blocker.signed_blocks[1].merkle_root
          # blocker.signed_blocks[2].merkle_root
    /\ blocker.current_tokens = <<EmptyStr>>


\* C22: Block size bounds.  With block_size >= 1 and serialized calls every
\* sealed block holds between 1 and block_size items, a block returned by
\* add_token holds exactly block_size items (a shorter one comes from
\* flush only), and between calls the open block holds fewer than
\* block_size items.
C22_BlockSizeBounds ==
    /\ \A i \in 1..Len(blocker.signed_blocks) :
          /\ Len(blocker.signed_blocks[i].tokens) >= 1
          /\ Len(blocker.signed_blocks[i].tokens) <= blocker.block_size
    /\ (ret.op = "add_token" /\ ret.val # None)
          => Len(ret.val[1].tokens) = blocker.block_size
    /\ Len(blocker.current_tokens) < blocker.block_size

\* C22 witness: a full block, a shorter block sealed by flush, and an open
\* block one short of full.
C22_Witness ==
    /\ blocker.block_size = 2
    /\ Len(blocker.signed_blocks) = 2
    /\ Len(blocker.signed_blocks[1].tokens) = 2
    /\ Len(blocker.signed_blocks[2].tokens) = 1
    /\ Len(blocker.current_tokens) = 1
    /\ ret.op = "add_token"
    /\ ret.val = None

\* The smallest k with 2^k >= n.
RECURSIVE CeilLog2(_)
CeilLog2(n) == IF n <= 1 THEN 0 ELSE 1 + CeilLog2((n + 1) \div 2)

\* The node of level k (1 = leaves) that stands beside position i: its
\* right or left neighbour, or the node itself when it is the odd one out.
Beside(level, i) ==
    LET j == IF i % 2 = 0 THEN i + 1 ELSE i - 1
    IN  IF j < Len(level) THEN level[j + 1] ELSE level[i + 1]

\* C26: Proof length.  For a tree built over n >= 1 leaves every proof
\* get_proof returns has ceil(log2 n) siblings, and for a valid index the
\* k-th sibling is the node beside the leaf's ancestor on level k, leaf
\* level first.
C26_ProofLength ==
    (/\ ret.op = "get_proof"
     /\ ret.exc = ""
     /\ TreeIsCurrent) =>
        LET proof == ret.val[1]
            n == Len(mt.leaves)
            levels == BuildLevels(mt.leaves)
        IN  /\ Len(proof.siblings) = CeilLog2(n)
            /\ Len(proof.siblings) = Len(levels) - 1
            /\ proof.leaf_index \in 0..(n - 1) =>
                  \A k \in 1..Len(proof.siblings) :
                      proof.siblings[k]
                         = Beside(levels[k],
                                  proof.leaf_index \div Pow2(k - 1))

\* C26 witness: the proof of the last of five leaves has three siblings,
\* the first two being the odd node itself.
C26_Witness ==
    /\ ret.op = "get_proof"
    /\ ret.exc = ""
    /\ TreeIsCurrent
    /\ Len(mt.leaves) = 5
    /\ ret.args = <<4>>
    /\ Len(ret.val[1].siblings) = 3
    /\ ret.val[1].siblings[1] = ret.val[1].leaf_hash
    /\ ret.val[1].siblings[2] = _combine(ret.val[1].leaf_hash,
                                         ret.val[1].leaf_hash)

----------------------------------------------------------------------------
(* Properties the code does not have.                                      *)

\* C12: Proofs for sealed blocks.  After a block was sealed, the attestor
\* can produce an inclusion proof for each of its item positions, and the
\* proof's root is the merkle_root stored in the block's SignedBlock.  The
\* only MerkleTree a TokenBlocker holds is current_tree.
C12_SealedBlockProofs ==
    \A b \in 1..Len(blocker.signed_blocks) :
        \A i \in 0..(Len(blocker.signed_blocks[b].tokens) - 1) :
            LET r == get_proof(blocker.current_tree, i)
            IN  /\ r.exc = ""
                /\ r.val # None
                /\ r.val[1].leaf_hash
                      = hash_fn(blocker.signed_blocks[b].tokens[i + 1])
                /\ r.val[1].root = blocker.signed_blocks[b].merkle_root

\* C13: get_proof rejects bad identifiers.  A get_proof call whose index is
\* not in 0..n-1 for the n leaves held, negative indices included, raises
\* and returns no proof.
C13_BadIndexRejected ==
    (/\ ret.op = "get_proof"
     /\ ret.args[1] \notin 0..(Len(mt.leaves) - 1))
        => (ret.exc # "" /\ ret.val = None)

\* C20: get_root is never stale.  After any add_leaf, build, get_root and
\* get_proof calls, get_root returns the Merkle root over all leaves added
\* so far, the value build would return at that moment.
C20_GetRootNeverStale ==
    ret.op = "get_root" => ret.val = Some(build(mt).val)

\* C21: get_proof reflects the current leaves.  For every valid index of
\* the current leaf list, also when leaves were added after the tree was
\* built, get_proof returns without raising a proof that verify_proof
\* accepts and whose root is the Merkle root over all current leaves.
C21_ProofReflectsLeaves ==
    (/\ ret.op = "get_proof"
     /\ ret.args[1] \in 0..(Len(mt.leaves) - 1)) =>
        /\ ret.exc = ""
        /\ ret.val # None
        /\ ret.val[1].root = build(mt).val
        /\ verify_proof(mt, ret.val[1])

\* C23: Signer failures are reported.  When the signer raised while a
\* block was sealed, the seal wrote a record of the failure to a channel
\* the caller can read.
C23_SignerFailureReported ==
    (/\ ret.op \in {"add_token", "flush"}
     /\ ret.val # None
     /\ blocker.signer = "raises") =>
        _finalize_block_reported(blocker.signer, ret.val[1].merkle_root)
           # <<>>

\* C25: The Merkle root identifies the content.  No other sequence of
\* items, of the same or of another length, builds to the root of the
\* tree just built.
C25_RootIdentifiesContent ==
    (ret.op = "build" /\ mt.leaves # <<>>) =>
        \A n \in 1..MaxLeaves : \A items \in [1..n -> Items] :
            RootOf(items) = ret.val[1]
               => Filled(items).leaves = mt.leaves

\* C24: Proof soundness.  A proof that verify_proof accepts and whose root
\* is the Merkle root of the block of n items has 0 <= leaf_index < n and
\* its leaf_hash is the hash of the item at that position.
C24_ProofSoundness ==
    (/\ ret.op = "verify_proof"
     /\ ret.val = Some(TRUE)
     /\ ret.args[1].root = build(mt).val) =>
        /\ ret.args[1].leaf_index \in 0..(Len(mt.leaves) - 1)
        /\ ret.args[1].leaf_hash = PyAt(mt.leaves, ret.args[1].leaf_index)

\* C27: Proxy attestation covers the stream.  The merkle_root of every
\* final sovereign_attestation event, on the first and on later requests
\* of one proxy, is the Merkle root over all leaves in the proxy's tree at
\* that moment.
C27_AttestationCoversStream ==
    ret.op = "sovereign_attestation" => ret.val = Some(build(mt).val)

\* C28: No trailing batch is lost by the generation loop.  When generate
\* has finished, every token it passed to attestation is in a sealed
\* block and the open block is empty.
C28_NoTrailingBatchLost ==
    pc[1] = "finished" =>
        /\ blocker.current_tokens = <<>>
        /\ ConcatTokens(blocker.signed_blocks) = submitted

\* How often x occurs in seq.
Count(seq, x) == Cardinality({i \in 1..Len(seq) : seq[i] = x})

\* C29: Unsynchronized producers.  Whenever no call is running, after any
\* interleaving of two callers, block IDs are 0..N-1 in order, every
\* sealed block holds between 1 and block_size tokens, and every submitted
\* token is in exactly one block or in the open block.
C29_RaceKeepsGuarantees ==
    (\A c \in Callers : pc[c] = "idle") =>
        /\ \A i \in 1..Len(blocker.signed_blocks) :
              /\ blocker.signed_blocks[i].block_id = i - 1
              /\ Len(blocker.signed_blocks[i].tokens) >= 1
              /\ Len(blocker.signed_blocks[i].tokens) <= blocker.block_size
        /\ \A x \in Items :
              Count(ConcatTokens(blocker.signed_blocks)
                       \o blocker.current_tokens, x)
                 = Count(submitted, x)

\* C30: Audit-chain tamper detection.  After any single stored field of
\* any entry of a valid trail was changed to a different value,
\* verify_chain_integrity returns invalid.
C30_AuditTamperDetected ==
    (ret.op = "verify_chain_integrity" /\ ret.args # <<>>)
        => ret.val = Some(FALSE)

====
